---- MODULE Spec2Model ----
\* dou-store: a JSON-RPC key/value configuration store over TCP.
\* The model covers the listener and its supervisor (main.rs, server/tcp.rs),
\* the per-connection session loop (server/tcp.rs), the dispatcher and the
\* domain handlers (server/mod.rs) and the two sled trees behind them (db.rs).
EXTENDS Integers, Sequences, FiniteSets, TLC

----------------------------------------------------------------------------
\* Bounds of the model.

\* A client closes its connection once it has received this many responses.
MaxResponses == 2

----------------------------------------------------------------------------
\* Strings are sequences of Unicode code points; byte strings are sequences
\* of numbers in 0..255.  Option<T> is a sequence of length 0 (None) or 1.

None == << >>
Some(x) == << x >>

\* protocol.rs: the end-of-message byte.
EOT == 4

\* server/mod.rs: int_err
CHECKSUM_FAIL_GET == 1
CONFIG_FAIL_GET == 10
CONFIG_RSP_CORRUPT == 20
SET_CONFIG_FAIL == 30
SET_CONFIG_SERDE_FAIL == 31
TASK_SPAWN_FAIL == 100

\* server/mod.rs: names of the params and result fields.
ID == "id"
DATA == "data"
RESULT == "result"

\* Method names a client may send, as code points.
M_ping == <<112, 105, 110, 103>>
M_checksum == <<99, 104, 101, 99, 107, 115, 117, 109>>
M_cheksum == <<99, 104, 101, 107, 115, 117, 109>>
M_config == <<99, 111, 110, 102, 105, 103>>
M_set_config == <<115, 101, 116, 95, 99, 111, 110, 102, 105, 103>>
M_bogus == <<98, 111, 103, 117, 115>>

\* str::as_bytes: the UTF-8 encoding of a string (code points below 0x800).
RECURSIVE as_bytes(_)
as_bytes(s) ==
    IF s = << >> THEN << >>
    ELSE LET cp == Head(s) IN
         (IF cp < 128 THEN << cp >>
          ELSE << 192 + (cp \div 64), 128 + (cp % 64) >>) \o as_bytes(Tail(s))

\* core::str::from_utf8: Some(string) for well-formed UTF-8, None otherwise.
RECURSIVE from_utf8(_)
from_utf8(b) ==
    IF b = << >> THEN Some(<< >>)
    ELSE LET b1 == Head(b) IN
         IF b1 < 128
         THEN LET rest == from_utf8(Tail(b)) IN
              IF rest = None THEN None ELSE Some(<< b1 >> \o rest[1])
         ELSE IF b1 >= 194 /\ b1 < 224 /\ Len(b) >= 2 /\ b[2] >= 128 /\ b[2] < 192
         THEN LET rest == from_utf8(Tail(Tail(b))) IN
              IF rest = None THEN None
              ELSE Some(<< (b1 - 192) * 64 + (b[2] - 128) >> \o rest[1])
         ELSE None

\* xxhash_rust::xxh3::xxh3_64: the 64-bit content hash.  The library function
\* is not part of the repository; it is represented by a polynomial hash
\* whose values fit the model checker's integers, the handlers using nothing
\* of it but its being a function of the bytes.
RECURSIVE xxh3_acc(_, _)
xxh3_acc(acc, b) ==
    IF b = << >> THEN acc
    ELSE xxh3_acc((acc * 31 + Head(b) + 1) % (2 ^ 24), Tail(b))

xxh3_64(b) == xxh3_acc(7919, b)

\* An encoding that keeps the four least significant bytes only.
to_be_bytes_short(n) == [i \in 1..4 |-> (n \div (256 ^ (4 - i))) % 256]

\* u64::to_be_bytes: eight bytes, most significant first.  Hash values are
\* below 2^31 here, so the four most significant bytes are 0.
to_be_bytes(n) ==
    [i \in 1..8 |-> IF i <= 4 THEN 0 ELSE (n \div (256 ^ (8 - i))) % 256]

\* u64::from_be_bytes of an 8-byte array.
RECURSIVE be_acc(_, _)
be_acc(acc, b) ==
    IF b = << >> THEN acc ELSE be_acc(acc * 256 + Head(b), Tail(b))

from_be_bytes(b) == be_acc(0, b)

\* server/mod.rs: the dispatch constants.
PING == xxh3_64(as_bytes(M_ping))
CHECKSUM == xxh3_64(as_bytes(M_cheksum))
CONFIG == xxh3_64(as_bytes(M_config))
SET_CONFIG == xxh3_64(as_bytes(M_set_config))

----------------------------------------------------------------------------
\* JSON values (serde_json::Value) as far as the handlers tell them apart.
\* An object carries the text serde_json::to_string gives for it.

JString(s) == [type |-> "String", text |-> s, num |-> 0]
JNumber(n) == [type |-> "Number", text |-> << >>, num |-> n]
JObject(t) == [type |-> "Object", text |-> t, num |-> 0]

\* A HashMap<String, Value> or a serde_json Map: a set of <<name, value>>.
map_get(m, name) ==
    LET hits == {e \in m : e[1] = name} IN
    IF hits = {} THEN None ELSE Some((CHOOSE e \in hits : TRUE)[2])

\* json_rpc_types::Request.
Request(id, method, params) == [id |-> id, method |-> method, params |-> params]

\* A session that takes every request for a call.
is_notification_never(request) == FALSE

is_notification(request) == request.id = None

\* json_rpc_types::Response::result and Response::error.
ResponseResult(payload, id) == [id |-> id, result |-> Some(payload), error |-> None]
ResponseError(kind, n, data, id) ==
    [id |-> id, result |-> None,
     error |-> Some([kind |-> kind, n |-> n, data |-> data])]

\* An InvalidRequest error that does not say which request it answers.
invalid_req_no_id(msg, id) == ResponseError("InvalidRequest", 0, Some(msg), None)

invalid_req(msg, id) == ResponseError("InvalidRequest", 0, Some(msg), id)

internal_err(err, id) == ResponseError("ServerError", err, None, id)

method_not_found(id) == ResponseError("MethodNotFound", 0, None, id)

checksum_response(num, id) == ResponseResult({<<RESULT, JNumber(num)>>}, id)

config_response(data, id) ==
    LET s == from_utf8(data) IN
    IF s = None THEN internal_err(CONFIG_RSP_CORRUPT, id)
    ELSE ResponseResult({<<RESULT, JString(s[1])>>}, id)

----------------------------------------------------------------------------
\* db.rs: DbView, the two sled trees.  A tree is a function from the keys
\* present (byte strings) to the stored byte strings.

EmptyTree == [k \in {} |-> << >>]

tree_get(tree, key) == IF key \in DOMAIN tree THEN Some(tree[key]) ELSE None

\* An insert that drops every other entry of the tree.
tree_insert_alone(tree, key, val) == [k \in {key} |-> val]

tree_insert(tree, key, val) ==
    [k \in (DOMAIN tree) \cup {key} |-> IF k = key THEN val ELSE tree[k]]

DbOpen == [config |-> EmptyTree, checksum |-> EmptyTree]

\* What the environment decides for one offloaded task:
\*   join: the blocking task ran to completion (FALSE: it panicked or was
\*         cancelled before touching storage, the JoinHandle yields Err);
\*   io:   the sled operation (get, or the transaction) returned Ok;
\*   ser:  serde_json::to_string of an object returned Ok.
TaskEnv == [join : BOOLEAN, io : BOOLEAN, ser : BOOLEAN]

\* A handler's outcome: resp = None when the handler panicked.
Outcome(resp, db) == [resp |-> resp, db |-> db]

\* A transaction that applies the checksum insert and loses the config insert.
transaction_checksum_only(db, key, hash, value) ==
    [checksum |-> tree_insert(db.checksum, as_bytes(key), to_be_bytes(hash)),
     config |-> db.config]

\* server/mod.rs set_config_response: the body of the sled transaction over
\* (checksum, config); sled applies both inserts atomically.
transaction(db, key, hash, value) ==
    [checksum |-> tree_insert(db.checksum, as_bytes(key), to_be_bytes(hash)),
     config |-> tree_insert(db.config, as_bytes(key), as_bytes(value))]

\* set_config_response whose failed transaction keeps its first insert.
set_config_response_partial(db, key, value, id, env) ==
    LET hash == xxh3_64(as_bytes(value)) IN
    IF env.io
    THEN Outcome(Some(checksum_response(hash, id)), transaction(db, key, hash, value))
    ELSE Outcome(Some(internal_err(SET_CONFIG_FAIL, id)),
                 [db EXCEPT !.checksum = tree_insert(@, as_bytes(key), to_be_bytes(hash))])

set_config_response(db, key, value, id, env) ==
    LET hash == xxh3_64(as_bytes(value)) IN
    IF env.io
    THEN Outcome(Some(checksum_response(hash, id)), transaction(db, key, hash, value))
    ELSE Outcome(Some(internal_err(SET_CONFIG_FAIL, id)), db)

handle_set_config_req(db, params, id, env) ==
    LET key == map_get(params, ID)
        data == map_get(params, DATA) IN
    IF key = None
    THEN Outcome(Some(invalid_req("Params is missing field 'id'", id)), db)
    ELSE IF key[1].type # "String"
    THEN Outcome(Some(invalid_req("Params field 'id' must be a string", id)), db)
    ELSE IF data = None
    THEN Outcome(Some(invalid_req("Params is missing field 'data'", id)), db)
    ELSE IF data[1].type = "String"
    THEN set_config_response(db, key[1].text, data[1].text, id, env)
    ELSE IF data[1].type = "Object"
    THEN IF env.ser
         THEN set_config_response(db, key[1].text, data[1].text, id, env)
         ELSE Outcome(Some(internal_err(SET_CONFIG_SERDE_FAIL, id)), db)
    ELSE Outcome(Some(invalid_req("Params field 'data' must be a string or object", id)), db)

handle_checksum_req(db, params, id, env) ==
    LET key == map_get(params, ID) IN
    IF key = None
    THEN Outcome(Some(invalid_req("Params is missing field 'id'", id)), db)
    ELSE IF key[1].type # "String"
    THEN Outcome(Some(invalid_req("Params field 'id' must be a string", id)), db)
    ELSE IF ~env.io
    THEN Outcome(Some(internal_err(CHECKSUM_FAIL_GET, id)), db)
    ELSE LET value == tree_get(db.checksum, as_bytes(key[1].text)) IN
         IF value = None THEN Outcome(Some(checksum_response(0, id)), db)
         \* clone_from_slice panics unless the slice holds exactly 8 bytes
         ELSE IF Len(value[1]) # 8 THEN Outcome(None, db)
         ELSE Outcome(Some(checksum_response(from_be_bytes(value[1]), id)), db)

handle_config_req(db, params, id, env) ==
    LET key == map_get(params, ID) IN
    IF key = None
    THEN Outcome(Some(invalid_req("Params is missing field 'id'", id)), db)
    ELSE IF key[1].type # "String"
    THEN Outcome(Some(invalid_req("Params field 'id' must be a string", id)), db)
    ELSE IF ~env.io
    THEN Outcome(Some(internal_err(CONFIG_FAIL_GET, id)), db)
    ELSE LET value == tree_get(db.config, as_bytes(key[1].text)) IN
         IF value = None THEN Outcome(Some(config_response(<< >>, id)), db)
         ELSE Outcome(Some(config_response(value[1], id)), db)

\* Handler::handle_request, the match on the hash of the method name: the
\* arm taken, "" for the wildcard arm.
route(method) ==
    LET h == xxh3_64(as_bytes(method)) IN
    IF h = PING THEN "ping"
    ELSE IF h = CHECKSUM THEN "checksum"
    ELSE IF h = CONFIG THEN "config"
    ELSE IF h = SET_CONFIG THEN "set_config"
    ELSE ""

\* Handler::handle_request up to its first await: Some(response) when the
\* arm answers at once, None when it hands a handler to spawn_blocking.
handle_request(request) ==
    LET arm == route(request.method) IN
    IF arm = "ping" THEN Some(ResponseResult({}, request.id))
    ELSE IF arm = "" THEN Some(method_not_found(request.id))
    ELSE IF request.params = None THEN Some(invalid_req("Missing params", request.id))
    ELSE None

\* A dispatcher that reports a failed task with the code of a failed read.
spawn_blocking_as_read_failure(request, db, env) ==
    LET arm == route(request.method)
        params == request.params[1]
        out == IF arm = "checksum" THEN handle_checksum_req(db, params, request.id, env)
               ELSE IF arm = "config" THEN handle_config_req(db, params, request.id, env)
               ELSE handle_set_config_req(db, params, request.id, env) IN
    IF ~env.join \/ out.resp = None
    THEN Outcome(Some(internal_err(CHECKSUM_FAIL_GET, request.id)), db)
    ELSE out

\* The closure given to spawn_blocking and the match on its JoinHandle.
spawn_blocking(request, db, env) ==
    LET arm == route(request.method)
        params == request.params[1]
        out == IF arm = "checksum" THEN handle_checksum_req(db, params, request.id, env)
               ELSE IF arm = "config" THEN handle_config_req(db, params, request.id, env)
               ELSE handle_set_config_req(db, params, request.id, env) IN
    IF ~env.join \/ out.resp = None
    THEN Outcome(Some(internal_err(TASK_SPAWN_FAIL, request.id)), db)
    ELSE out

----------------------------------------------------------------------------
\* The wire.  A byte buffer is a sequence of tokens: the text of one JSON-RPC
\* message (v = Some(message)), text that is no JSON-RPC message (v = None),
\* or the single byte EOT.

Text(message) == [t |-> "text", v |-> Some(message)]
Junk == [t |-> "text", v |-> None]
Eot == [t |-> "eot", v |-> None]

\* serde_json::from_slice::<Request>: Some(request) when the whole slice is
\* the text of one request; any other byte after the value (EOT is not JSON
\* whitespace) is a trailing-characters error.
from_slice(buf) ==
    IF Len(buf) = 1 /\ buf[1].t = "text" THEN buf[1].v ELSE None

\* serde_json::to_writer(&mut serde_buf, &response).
to_writer(buf, response) == buf \o << Text(response) >>

\* io::ErrorKind values accept may fail with, and ErrorKindExt.
ErrorKinds ==
    {"ConnectionAborted", "ConnectionRefused", "ConnectionReset", "NotConnected",
     "WouldBlock", "TimedOut", "Interrupted", "PermissionDenied", "Other"}

\* A listener that takes every accept error for fatal.
is_accept_error_ok_never(kind) == FALSE

is_accept_error_ok(kind) ==
    kind \in {"ConnectionAborted", "ConnectionRefused", "ConnectionReset",
              "NotConnected", "WouldBlock", "TimedOut", "Interrupted"}

----------------------------------------------------------------------------
\* The clients of the model.

\* Peer addresses: two connections from one host, one from another.
SocketAddrs ==
    {[ip |-> "127.0.0.1", port |-> 5001],
     [ip |-> "127.0.0.1", port |-> 5002],
     [ip |-> "127.0.0.2", port |-> 5001]}

Keys == {<<107>>, <<233>>}
Values == {<<233>>}
ObjectTexts == {<<123, 125>>}

KeyParams == {{<<ID, JString(k)>>} : k \in Keys}

ReadParams == {{}, {<<ID, JNumber(1)>>}} \cup KeyParams

SetParams ==
    {{<<DATA, JString(<<233>>)>>}, {<<ID, JNumber(1)>>, <<DATA, JNumber(1)>>}}
    \cup KeyParams
    \cup {kp \cup {<<DATA, JString(v)>>} : kp \in KeyParams, v \in Values}
    \cup {{<<ID, JString(<<107>>)>>, <<DATA, d>>} :
            d \in {JNumber(1)} \cup {JObject(o) : o \in ObjectTexts}}

\* Requests that carry an id.
CallRequests ==
    {Request(Some(1), M_ping, p) : p \in {None, Some({})}}
    \cup {Request(Some(2), M_ping, None)}
    \cup {Request(Some(1), M_bogus, None)}
    \cup {Request(Some(1), M_checksum, p) :
            p \in {None, Some({})} \cup {Some(q) : q \in KeyParams}}
    \cup {Request(Some(1), m, p) :
            m \in {M_cheksum, M_config}, p \in {None} \cup {Some(q) : q \in ReadParams}}
    \cup {Request(Some(1), M_set_config, p) : p \in {None} \cup {Some(q) : q \in SetParams}}

\* Requests without an id.
Notifications ==
    {Request(None, M_ping, None),
     Request(None, M_set_config, Some({<<ID, JString(<<107>>)>>, <<DATA, JString(<<233>>)>>}))}

\* What one read_until(EOT) can append: bytes up to and including the
\* delimiter, or the bytes before the peer shut its side down.
DelimitedFrames ==
    {<<Junk, Eot>>,
     <<Text(Request(Some(1), M_ping, None)), Eot>>,
     <<Text(Request(None, M_ping, None)), Eot>>}

UndelimitedFrames ==
    {<<Junk>>} \cup {<<Text(r)>> : r \in CallRequests \cup Notifications}

\* The second host's client sends a few frames only, all about one key.
FewFrames ==
    {<<Junk, Eot>>}
    \cup {<<Text(Request(Some(1), M_config, Some({<<ID, JString(<<107>>)>>})))>>}
    \cup {<<Text(Request(Some(1), M_set_config,
                         Some({<<ID, JString(<<107>>)>>, <<DATA, JString(<<233>>)>>})))>>}

ClientFrames(addr) ==
    IF addr.ip = "127.0.0.1" THEN DelimitedFrames \cup UndelimitedFrames ELSE FewFrames

----------------------------------------------------------------------------
\* State.

VARIABLES
    lpc,        \* supervisor and listener: "start", "accept", "admit", "sleep"
    pending,    \* the address accepted and not yet admitted (Option)
    connected,  \* Server.connected: the registered IP addresses
    db,         \* DbView: the config and checksum trees
    pc,         \* per address, the session task: "none", "read", "parse",
                \* "offload", "write", "close"
    read_buf,   \* per session, read_buf
    serde_buf,  \* per session, serde_buf
    eof,        \* per session, the peer has shut down its sending side
    tx,         \* per session, the bytes written to the socket so far
    discarded,  \* history: the session discarded the frame before this one
    last_set,   \* history: per key, the value of the last committed set_config
    outstanding \* history: the sessions whose request awaits its response,
                \* in the order the requests were taken

vars == <<lpc, pending, connected, db, pc, read_buf, serde_buf, eof, tx,
          discarded, last_set, outstanding>>

session_vars == <<pc, read_buf, serde_buf, eof, tx, discarded>>

\* main.rs: rust_main up to the supervisor loop, and Server::new.
Init ==
    /\ lpc = "start"
    /\ pending = None
    /\ connected = {}
    /\ db = DbOpen
    /\ pc = [a \in SocketAddrs |-> "none"]
    /\ read_buf = [a \in SocketAddrs |-> << >>]
    /\ serde_buf = [a \in SocketAddrs |-> << >>]
    /\ eof = [a \in SocketAddrs |-> FALSE]
    /\ tx = [a \in SocketAddrs |-> << >>]
    /\ discarded = [a \in SocketAddrs |-> FALSE]
    /\ last_set = [k \in Keys |-> None]
    /\ outstanding = << >>

\* main.rs: the runtime is a basic (current-thread) scheduler, so the session
\* tasks advance only while block_on is polling the listener; blocking tasks
\* run on their own threads.
Running == lpc \in {"accept", "admit"}

----------------------------------------------------------------------------
\* Listener and supervisor.

\* rust_main calls block_on(tcp.start()) for the first time; Server::start
\* binds the listener and returns false when that fails.
Bind(ok) ==
    /\ lpc = "start"
    /\ lpc' = IF ok THEN "accept" ELSE "sleep"
    /\ UNCHANGED <<pending, connected, db, session_vars, last_set, outstanding>>

\* Server::start: accept returns a socket of a peer address not in use.
Accept(addr) ==
    /\ lpc = "accept"
    /\ pc[addr] = "none"
    /\ lpc' = "admit"
    /\ pending' = Some(addr)
    /\ UNCHANGED <<connected, db, session_vars, last_set, outstanding>>

\* Server::start: accept returns an error.
AcceptError(kind) ==
    /\ lpc = "accept"
    /\ lpc' = IF is_accept_error_ok(kind) THEN "accept" ELSE "sleep"
    /\ UNCHANGED <<pending, connected, db, session_vars, last_set, outstanding>>

\* An insert that reports every address as new.
registry_insert_always_new(set, ip) == [set |-> set \cup {ip}, new |-> TRUE]

\* HashSet::insert on the registry: the new set and whether the value is new.
registry_insert(set, ip) == [set |-> set \cup {ip}, new |-> ip \notin set]

\* A remove that leaves the set as it is.
registry_remove_nothing(set, ip) == set

\* HashSet::remove on the registry.
registry_remove(set, ip) == set \ {ip}

\* Server::start: the registry decides; spawn handle_client or drop the socket.
Admit ==
    /\ lpc = "admit"
    /\ LET addr == pending[1]
           ins == registry_insert(connected, addr.ip) IN
       /\ connected' = ins.set
       /\ pc' = IF ins.new THEN [pc EXCEPT ![addr] = "read"] ELSE pc
    /\ lpc' = "accept"
    /\ pending' = None
    /\ UNCHANGED <<db, read_buf, serde_buf, eof, tx, discarded, last_set,
                   outstanding>>

\* main.rs: start returned false; the supervisor sleeps one second and calls
\* start again, which binds anew.
Restart(ok) ==
    /\ lpc = "sleep"
    /\ lpc' = IF ok THEN "accept" ELSE "sleep"
    /\ UNCHANGED <<pending, connected, db, session_vars, last_set, outstanding>>

----------------------------------------------------------------------------
\* Server::handle_client, one action per await point.

\* read_until(EOT, &mut read_buf) returns Ok(n), n > 0: the bytes are appended
\* to whatever read_buf holds.
ReadUntil(addr, frame) ==
    /\ Running
    /\ pc[addr] = "read"
    /\ ~eof[addr]
    /\ Len(tx[addr]) < MaxResponses
    /\ read_buf' = [read_buf EXCEPT ![addr] = @ \o frame]
    /\ eof' = [eof EXCEPT ![addr] = frame[Len(frame)] # Eot]
    /\ pc' = [pc EXCEPT ![addr] = "parse"]
    /\ UNCHANGED <<lpc, pending, connected, db, serde_buf, tx, discarded,
                   last_set, outstanding>>

\* A session that goes back to read_until while its blocking task still
\* runs, and sees the end of the stream.
ReadEnd_pipelined(addr, result) ==
    /\ Running
    /\ pc[addr] \in {"read", "offload"}
    /\ result \in {"Ok(0)", "Err"}
    /\ pc' = [pc EXCEPT ![addr] = "close"]
    /\ read_buf' = [read_buf EXCEPT ![addr] = << >>]
    /\ eof' = [eof EXCEPT ![addr] = FALSE]
    /\ tx' = [tx EXCEPT ![addr] = << >>]
    /\ discarded' = [discarded EXCEPT ![addr] = FALSE]
    /\ UNCHANGED <<lpc, pending, connected, db, serde_buf, last_set, outstanding>>

\* read_until returns Ok(0) (peer closed) or Err: break out of the loop.
\* Nothing reads the buffers or writes to the socket after the loop, so the
\* model lets go of them here.
ReadEnd(addr, result) ==
    /\ Running
    /\ pc[addr] = "read"
    /\ result \in {"Ok(0)", "Err"}
    /\ pc' = [pc EXCEPT ![addr] = "close"]
    /\ read_buf' = [read_buf EXCEPT ![addr] = << >>]
    /\ eof' = [eof EXCEPT ![addr] = FALSE]
    /\ tx' = [tx EXCEPT ![addr] = << >>]
    /\ discarded' = [discarded EXCEPT ![addr] = FALSE]
    /\ UNCHANGED <<lpc, pending, connected, db, serde_buf, last_set, outstanding>>

\* The match on serde_json::from_slice up to the next await: a parse error
\* clears read_buf; a notification continues the loop at once; a request with
\* an id goes to handle_request, which answers or offloads.
ParseFrame(addr) ==
    /\ Running
    /\ pc[addr] = "parse"
    /\ LET parsed == from_slice(read_buf[addr]) IN
       IF parsed = None
       THEN /\ read_buf' = [read_buf EXCEPT ![addr] = << >>]
            /\ discarded' = [discarded EXCEPT ![addr] = TRUE]
            /\ pc' = [pc EXCEPT ![addr] = "read"]
            /\ UNCHANGED <<serde_buf, outstanding>>
       ELSE IF is_notification(parsed[1])
       THEN /\ pc' = [pc EXCEPT ![addr] = "read"]
            /\ discarded' = [discarded EXCEPT ![addr] = FALSE]
            /\ UNCHANGED <<read_buf, serde_buf, outstanding>>
       ELSE LET response == handle_request(parsed[1]) IN
            /\ outstanding' = Append(outstanding, addr)
            /\ discarded' = [discarded EXCEPT ![addr] = FALSE]
            /\ IF response = None
               THEN /\ pc' = [pc EXCEPT ![addr] = "offload"]
                    /\ UNCHANGED <<read_buf, serde_buf>>
               ELSE /\ serde_buf' = [serde_buf EXCEPT ![addr] = to_writer(@, response[1])]
                    /\ pc' = [pc EXCEPT ![addr] = "write"]
                    /\ UNCHANGED read_buf
    /\ UNCHANGED <<lpc, pending, connected, db, eof, tx, last_set>>

\* The key and value a set_config request asks to store (both strings).
SetKey(request) == map_get(request.params[1], ID)[1].text
SetValue(request) == map_get(request.params[1], DATA)[1].text

\* The blocking task runs on the pool and the session takes its result:
\* the response is serialized into serde_buf.
RunTask(addr, env) ==
    /\ pc[addr] = "offload"
    /\ LET request == from_slice(read_buf[addr])[1]
           out == spawn_blocking(request, db, env)
           committed == /\ route(request.method) = "set_config"
                        /\ out.resp[1].error = None IN
       /\ db' = out.db
       /\ serde_buf' = [serde_buf EXCEPT ![addr] = to_writer(@, out.resp[1])]
       /\ last_set' = IF committed
                      THEN [last_set EXCEPT ![SetKey(request)] = Some(SetValue(request))]
                      ELSE last_set
    /\ pc' = [pc EXCEPT ![addr] = "write"]
    /\ UNCHANGED <<lpc, pending, connected, read_buf, eof, tx, discarded,
                   outstanding>>

\* A session that breaks out of its loop when write_all fails.
WriteResponse_fatal(addr, ok) ==
    /\ Running
    /\ pc[addr] = "write"
    /\ tx' = [tx EXCEPT ![addr] = IF ok THEN @ \o serde_buf[addr] ELSE @]
    /\ serde_buf' = [serde_buf EXCEPT ![addr] = << >>]
    /\ read_buf' = [read_buf EXCEPT ![addr] = << >>]
    /\ pc' = [pc EXCEPT ![addr] = IF ok THEN "read" ELSE "close"]
    /\ outstanding' = SelectSeq(outstanding, LAMBDA a : a # addr)
    /\ UNCHANGED <<lpc, pending, connected, db, eof, discarded, last_set>>

\* write_all(&serde_buf) returns; then serde_buf.clear() and read_buf.clear().
WriteResponse(addr, ok) ==
    /\ Running
    /\ pc[addr] = "write"
    /\ tx' = [tx EXCEPT ![addr] = IF ok THEN @ \o serde_buf[addr] ELSE @]
    /\ serde_buf' = [serde_buf EXCEPT ![addr] = << >>]
    /\ read_buf' = [read_buf EXCEPT ![addr] = << >>]
    /\ pc' = [pc EXCEPT ![addr] = "read"]
    /\ outstanding' = SelectSeq(outstanding, LAMBDA a : a # addr)
    /\ UNCHANGED <<lpc, pending, connected, db, eof, discarded, last_set>>

\* After the loop: connected.write().await.remove(&addr.ip()); the task ends
\* and its socket is dropped.
Release(addr) ==
    /\ Running
    /\ pc[addr] = "close"
    /\ connected' = registry_remove(connected, addr.ip)
    /\ pc' = [pc EXCEPT ![addr] = "none"]
    /\ UNCHANGED <<lpc, pending, db, read_buf, serde_buf, eof, tx, discarded,
                   last_set, outstanding>>

----------------------------------------------------------------------------

Next ==
    \/ \E ok \in BOOLEAN : Bind(ok)
    \/ \E addr \in SocketAddrs : Accept(addr)
    \/ \E kind \in ErrorKinds : AcceptError(kind)
    \/ Admit
    \/ \E ok \in BOOLEAN : Restart(ok)
    \/ \E addr \in SocketAddrs : \E frame \in ClientFrames(addr) : ReadUntil(addr, frame)
    \/ \E addr \in SocketAddrs, result \in {"Ok(0)", "Err"} : ReadEnd(addr, result)
    \/ \E addr \in SocketAddrs : ParseFrame(addr)
    \/ \E addr \in SocketAddrs, env \in TaskEnv : RunTask(addr, env)
    \/ \E addr \in SocketAddrs, ok \in BOOLEAN : WriteResponse(addr, ok)
    \/ \E addr \in SocketAddrs : Release(addr)

Spec == Init /\ [][Next]_vars

\* The scheduler polls a session task that is ready whenever block_on is
\* polling the listener: a session that has left its loop gets to remove its
\* address once the listener is up often enough.
FairSpec == Spec /\ \A addr \in SocketAddrs : SF_vars(Release(addr))

----------------------------------------------------------------------------
\* Properties.

\* The request a session is working on (read_buf keeps its text until the
\* response has been written) and the response it has serialized.
RequestOf(buf) == from_slice(buf)[1]
ResponseOf(buf) == buf[1].v[1]

IsServerError(response, n) ==
    /\ response.error # None
    /\ response.error[1].kind = "ServerError"
    /\ response.error[1].n = n

\* C1: in every reachable state the config and checksum trees hold the same
\* keys and every checksum entry is the 8-byte big-endian encoding of the hash
\* of the config entry of its key, so no point read is served from a state
\* where only one of the two trees was updated.
C1_TablesConsistent ==
    /\ DOMAIN db.config = DOMAIN db.checksum
    /\ \A k \in DOMAIN db.config :
          /\ Len(db.checksum[k]) = 8
          /\ db.checksum[k] = to_be_bytes(xxh3_64(db.config[k]))

\* Two sessions have tasks in the pool for a key that is already stored: one
\* overwrites it with another value, the other reads it.
C1_Witness ==
    \E a, b \in SocketAddrs :
        /\ a # b
        /\ pc[a] = "offload" /\ pc[b] = "offload"
        /\ RequestOf(read_buf[a]).method = M_set_config
        /\ RequestOf(read_buf[b]).method = M_config
        /\ map_get(RequestOf(read_buf[a]).params[1], ID) = Some(JString(<<107>>))
        /\ map_get(RequestOf(read_buf[a]).params[1], DATA) = Some(JString(<<233>>))
        /\ map_get(RequestOf(read_buf[b]).params[1], ID) = Some(JString(<<107>>))
        /\ as_bytes(<<107>>) \in DOMAIN db.config
        /\ db.config[as_bytes(<<107>>)] # as_bytes(<<233>>)

\* C2: a step that answers a set_config request with InvalidRequest, with
\* ServerError(SET_CONFIG_SERDE_FAIL) or with ServerError(SET_CONFIG_FAIL)
\* leaves both trees as they were.
C2_FailedSetConfigKeepsTables ==
    [][\A a \in SocketAddrs :
          (/\ pc[a] \in {"parse", "offload"}
           /\ pc'[a] = "write"
           /\ RequestOf(read_buf[a]).method = M_set_config
           /\ LET response == ResponseOf(serde_buf'[a]) IN
              \/ (response.error # None /\ response.error[1].kind = "InvalidRequest")
              \/ IsServerError(response, SET_CONFIG_SERDE_FAIL)
              \/ IsServerError(response, SET_CONFIG_FAIL))
          => db' = db]_vars

\* A set_config for a stored key, asking for another value, was answered with
\* the transaction-failure error.
C2_Witness ==
    \E a \in SocketAddrs :
        /\ pc[a] = "write"
        /\ RequestOf(read_buf[a]).method = M_set_config
        /\ IsServerError(ResponseOf(serde_buf[a]), SET_CONFIG_FAIL)
        /\ as_bytes(SetKey(RequestOf(read_buf[a]))) \in DOMAIN db.config
        /\ db.config[as_bytes(SetKey(RequestOf(read_buf[a])))]
              # as_bytes(SetValue(RequestOf(read_buf[a])))

\* A session takes the frame it has read: the step from the parse.
Parses(a) == pc[a] = "parse" /\ pc'[a] # "parse"

\* A session produces its response in this step.
Answered(a) == pc[a] \in {"parse", "offload"} /\ pc'[a] = "write"

HasStringId(request) ==
    /\ request.params # None
    /\ map_get(request.params[1], ID) # None
    /\ map_get(request.params[1], ID)[1].type = "String"

IdOf(request) == map_get(request.params[1], ID)[1].text

IsInternal(response) ==
    response.error # None /\ response.error[1].kind = "ServerError"

\* C3: a successful set_config(k, v) returns hash(v), and while v is the last
\* value committed for k, a checksum request for k is answered with hash(v)
\* and a config request for k with v (a storage failure apart), from any
\* session.
C3_SetThenRead ==
    [][\A a \in SocketAddrs :
          Answered(a) =>
          LET request == RequestOf(read_buf[a])
              response == ResponseOf(serde_buf'[a]) IN
          /\ (request.method = M_set_config /\ response.error = None)
                => response = checksum_response(xxh3_64(as_bytes(SetValue(request))),
                                                request.id)
          /\ (/\ request.method \in {M_checksum, M_config}
              /\ HasStringId(request)
              /\ last_set[IdOf(request)] # None
              /\ ~IsInternal(response))
                => LET v == last_set[IdOf(request)][1] IN
                   response = IF request.method = M_checksum
                              THEN checksum_response(xxh3_64(as_bytes(v)), request.id)
                              ELSE ResponseResult({<<RESULT, JString(v)>>}, request.id)
      ]_vars

\* C4: for a key no set_config has committed, a checksum request is answered
\* with result 0 and a config request with the empty string (a storage
\* failure apart), whatever other keys hold.
C4_NeverWritten ==
    [][\A a \in SocketAddrs :
          (/\ Answered(a)
           /\ RequestOf(read_buf[a]).method \in {M_checksum, M_config}
           /\ HasStringId(RequestOf(read_buf[a]))
           /\ last_set[IdOf(RequestOf(read_buf[a]))] = None
           /\ ~IsInternal(ResponseOf(serde_buf'[a])))
          => ResponseOf(serde_buf'[a]) =
                IF RequestOf(read_buf[a]).method = M_checksum
                THEN checksum_response(0, RequestOf(read_buf[a]).id)
                ELSE ResponseResult({<<RESULT, JString(<< >>)>>},
                                    RequestOf(read_buf[a]).id)
      ]_vars

\* C5: no two live sessions share a source IP address, and admitting a
\* connection whose IP address is registered spawns no session and leaves the
\* registry as it is.
C5_OneSessionPerIp ==
    /\ [](\A a, b \in SocketAddrs :
             (pc[a] # "none" /\ pc[b] # "none" /\ a.ip = b.ip) => a = b)
    /\ [][(lpc = "admit" /\ lpc' # "admit" /\ pending[1].ip \in connected)
             => (pc' = pc /\ connected' = connected)]_vars

\* A connection from the address of a live session is accepted and awaits
\* the registry.
C5_Witness ==
    /\ lpc = "admit"
    /\ pending[1].ip \in connected
    /\ \E b \in SocketAddrs :
          b # pending[1] /\ b.ip = pending[1].ip /\ pc[b] \in {"read", "offload", "write"}

\* C6: a registered address has a running session; a session ends only from
\* the end of its read loop, removing its own registered address and no
\* other live session's; an address leaves the registry only so; and once a
\* session has left its loop its address eventually leaves the registry,
\* provided the listener keeps coming up.
C6_RegistryFollowsSessions ==
    /\ [](\A ip \in connected : \E a \in SocketAddrs : a.ip = ip /\ pc[a] # "none")
    /\ [][\A a \in SocketAddrs :
            (pc[a] # "none" /\ pc'[a] = "none")
            => /\ pc[a] = "close"
               /\ a.ip \in connected
               /\ connected' = connected \ {a.ip}
               /\ \A b \in SocketAddrs : (b # a /\ b.ip = a.ip) => pc[b] = "none"]_vars
    /\ [][\A ip \in connected \ connected' :
            \E a \in SocketAddrs : a.ip = ip /\ pc[a] = "close" /\ pc'[a] = "none"]_vars
    /\ \A a \in SocketAddrs :
          ([]<>Running) => ((pc[a] = "close") ~> (pc[a] = "none" /\ a.ip \notin connected))

\* A session has left its read loop and its address is still registered.
C6_Witness ==
    \E a, b \in SocketAddrs :
        /\ pc[a] = "close" /\ a.ip \in connected
        /\ pc[b] = "write" /\ b.ip \in connected

\* The bytes in buf are the text of one request with an id, alone or followed
\* by the delimiter.
IsCallFrame(buf) ==
    /\ Len(buf) \in {1, 2}
    /\ buf[1].t = "text" /\ buf[1].v # None /\ buf[1].v[1].id # None
    /\ Len(buf) = 2 => buf[2] = Eot

\* C7: a frame that does not parse leaves the session reading, with nothing to
\* write, and the next frame holding a request with an id gets the
\* dispatcher's response.
C7_BadFrameThenValid ==
    [][\A a \in SocketAddrs :
          /\ (Parses(a) /\ from_slice(read_buf[a]) = None)
                => (pc'[a] = "read" /\ serde_buf'[a] = << >> /\ tx'[a] = tx[a])
          /\ (Parses(a) /\ discarded[a] /\ IsCallFrame(read_buf[a]))
                => LET response == handle_request(read_buf[a][1].v[1]) IN
                   IF response = None THEN pc'[a] = "offload"
                   ELSE pc'[a] = "write" /\ serde_buf'[a] = << Text(response[1]) >>
      ]_vars

\* C8: a request without an id is never handed to a handler: handling it
\* writes nothing, serializes nothing and leaves storage alone, whatever its
\* method.
C8_NotificationSilent ==
    /\ [](\A a \in SocketAddrs :
             pc[a] \in {"offload", "write"} => RequestOf(read_buf[a]).id # None)
    /\ [][\A a \in SocketAddrs :
            (/\ Parses(a)
             /\ from_slice(read_buf[a]) # None
             /\ RequestOf(read_buf[a]).id = None)
            => /\ pc'[a] = "read"
               /\ serde_buf'[a] = << >>
               /\ tx'[a] = tx[a]
               /\ db' = db]_vars

\* A set_config notification has been taken off the wire: the session is
\* reading again and has written nothing.
C8_Witness ==
    \E a \in SocketAddrs :
        /\ pc[a] = "read"
        /\ from_slice(read_buf[a]) # None
        /\ RequestOf(read_buf[a]).id = None
        /\ RequestOf(read_buf[a]).method = M_set_config
        /\ tx[a] = << >>
        /\ db = DbOpen

\* C9: a request with an id is answered with MethodNotFound exactly when its
\* method is none of ping, checksum, config, set_config, and each of the four
\* names takes the arm of its name.
C9_Dispatch ==
    [][\A a \in SocketAddrs :
          (Parses(a) /\ from_slice(read_buf[a]) # None
           /\ RequestOf(read_buf[a]).id # None)
          => LET request == RequestOf(read_buf[a])
                 notfound == /\ pc'[a] = "write"
                             /\ ResponseOf(serde_buf'[a]) = method_not_found(request.id) IN
             /\ (request.method \in {M_ping, M_checksum, M_config, M_set_config})
                   <=> ~notfound
             /\ request.method = M_ping => route(request.method) = "ping"
             /\ request.method = M_checksum => route(request.method) = "checksum"
             /\ request.method = M_config => route(request.method) = "config"
             /\ request.method = M_set_config => route(request.method) = "set_config"
      ]_vars

\* C10: what a session has written to its socket is a sequence of frames, each
\* the text of one response followed by one EOT byte.
C10_ResponsesDelimited ==
    \A a \in SocketAddrs :
        /\ Len(tx[a]) % 2 = 0
        /\ \A i \in 1..Len(tx[a]) :
              IF i % 2 = 1 THEN tx[a][i].t = "text" /\ tx[a][i].v # None
              ELSE tx[a][i] = Eot

Range(seq) == {seq[i] : i \in DOMAIN seq}

\* C12: a session has at most one request awaiting its response, which is the
\* case exactly while it is offloading or writing; while it does, it reads
\* nothing, so bytes are only ever appended to read_buf by a session with no
\* request outstanding; what it writes is the response to that one request;
\* and two sessions' requests may be answered in either order.
C12_SequentialPerConnection ==
    /\ [](/\ \A i, j \in DOMAIN outstanding :
                outstanding[i] = outstanding[j] => i = j
          /\ \A a \in SocketAddrs :
                a \in Range(outstanding) <=> pc[a] \in {"offload", "write"})
    /\ [][\A a \in SocketAddrs :
            /\ Len(read_buf'[a]) > Len(read_buf[a])
                  => /\ pc[a] = "read"
                     /\ a \notin Range(outstanding)
                     /\ serde_buf[a] = << >>
            /\ (a \in Range(outstanding) /\ a \in Range(outstanding'))
                  => /\ read_buf'[a] = read_buf[a]
                     /\ tx'[a] = tx[a]
            /\ Len(tx'[a]) > Len(tx[a])
                  => /\ pc[a] = "write"
                     /\ a \notin Range(outstanding')
                     /\ tx'[a] = Append(tx[a], serde_buf[a][1])
                     /\ ResponseOf(serde_buf[a]).id = RequestOf(read_buf[a]).id
      ]_vars

\* Two sessions have a request outstanding, and the one taken later has its
\* response ready while the earlier one is still in the pool.
C12_Witness ==
    /\ Len(outstanding) = 2
    /\ pc[outstanding[1]] = "offload"
    /\ pc[outstanding[2]] = "write"
    /\ outstanding[1].ip # outstanding[2].ip

\* C13: whenever a session is about to call read_until, its read_buf is
\* empty.
C13_ReadBufEmptyAtRead ==
    \A a \in SocketAddrs : pc[a] = "read" => read_buf[a] = << >>

\* The bytes in buf are the text of one request followed by the delimiter.
IsDelimitedRequest(buf) ==
    /\ Len(buf) = 2
    /\ buf[1].t = "text" /\ buf[1].v # None
    /\ buf[2] = Eot

\* C14: a frame made of the text of a valid request and the delimiter is
\* parsed as that request: the session does not discard it, and hands it on
\* when it carries an id.
C14_DelimiterNotParsed ==
    [][\A a \in SocketAddrs :
          (Parses(a) /\ IsDelimitedRequest(read_buf[a]))
          => /\ ~discarded'[a]
             /\ read_buf[a][1].v[1].id # None => pc'[a] \in {"offload", "write"}
      ]_vars

IsInvalidRequest(response) ==
    response.error # None /\ response.error[1].kind = "InvalidRequest"

\* C15: the answer to a checksum, config or set_config request is
\* InvalidRequest "Missing params" when it has no params; InvalidRequest
\* naming the field 'id', with storage untouched and whatever storage would
\* have returned, when its params have no string 'id'; for set_config with a
\* string 'id', InvalidRequest naming the field 'data' when 'data' is absent
\* or neither string nor object (a failure of the offloaded task apart); and
\* a ping is answered with the empty result, with or without params.
C15_ParamsValidated ==
    [][\A a \in SocketAddrs :
          Answered(a) =>
          LET request == RequestOf(read_buf[a])
              response == ResponseOf(serde_buf'[a])
              failed == IsServerError(response, TASK_SPAWN_FAIL)
              data == map_get(request.params[1], DATA) IN
          /\ request.method = M_ping => response = ResponseResult({}, request.id)
          /\ request.method \in {M_checksum, M_config, M_set_config}
                => /\ request.params = None
                         => response = invalid_req("Missing params", request.id)
                   /\ (request.params # None /\ ~HasStringId(request) /\ ~failed)
                         => /\ response \in
                                 {invalid_req("Params is missing field 'id'", request.id),
                                  invalid_req("Params field 'id' must be a string", request.id)}
                            /\ db' = db
                   /\ (/\ request.method = M_set_config
                       /\ HasStringId(request)
                       /\ data = None \/ data[1].type \notin {"String", "Object"}
                       /\ ~failed)
                         => /\ response \in
                                 {invalid_req("Params is missing field 'data'", request.id),
                                  invalid_req("Params field 'data' must be a string or object",
                                              request.id)}
                            /\ db' = db
      ]_vars

\* The accept errors the listener is to survive.
TransientKinds ==
    {"ConnectionAborted", "ConnectionRefused", "ConnectionReset", "NotConnected",
     "WouldBlock", "TimedOut", "Interrupted"}

\* C16: an accept error keeps the listener accepting exactly when its kind is
\* transient; any other accept error and a failed bind put the supervisor to
\* sleep; from there the only way on is a new bind, always possible, that
\* either succeeds or leads to the next sleep, so the listener never ends for
\* good; and neither the failure nor the restart changes any session or the
\* registry.
C16_ListenerSupervised ==
    /\ [](/\ lpc \in {"start", "accept", "admit", "sleep"}
          /\ lpc = "sleep" => ENABLED Restart(TRUE))
    /\ [][/\ \A kind \in ErrorKinds :
                AcceptError(kind)
                => (lpc' = IF kind \in TransientKinds THEN "accept" ELSE "sleep")
          /\ \A ok \in BOOLEAN :
                Bind(ok) => lpc' = IF ok THEN "accept" ELSE "sleep"
          /\ (lpc = "sleep" /\ lpc' # "sleep") => lpc' = "accept"
          /\ (lpc' = "sleep" \/ lpc = "sleep")
                => /\ lpc \in {"start", "accept", "sleep"}
                   /\ connected' = connected
                   /\ \A a \in SocketAddrs : pc[a] \in {"read", "parse", "write", "close"}
                                                => pc'[a] = pc[a]
      ]_vars

\* The listener has failed and the supervisor sleeps while two sessions are
\* registered, one of them with a response to write.
C16_Witness ==
    /\ lpc = "sleep"
    /\ \E a, b \in SocketAddrs :
          /\ a.ip # b.ip
          /\ {a.ip, b.ip} \subseteq connected
          /\ pc[a] = "write"
          /\ pc[b] = "read"

\* C17: a session leaves its loop only from read_until; the write of a
\* response, failed or not, takes the session back to read_until with its
\* buffers cleared and the registry as it was; and the step in which a
\* session leaves its loop or ends changes nothing of any other session and
\* removes no other session's address.
C17_SessionEndsOnReadOnly ==
    [][\A a \in SocketAddrs :
          /\ (pc[a] # "close" /\ pc'[a] = "close") => pc[a] = "read"
          /\ (pc[a] = "write" /\ pc'[a] # "write")
                => /\ pc'[a] = "read"
                   /\ read_buf'[a] = << >> /\ serde_buf'[a] = << >>
                   /\ connected' = connected
          /\ (pc'[a] # pc[a] /\ pc'[a] \in {"close", "none"})
                => \A b \in SocketAddrs \ {a} :
                      /\ pc'[b] = pc[b]
                      /\ read_buf'[b] = read_buf[b] /\ serde_buf'[b] = serde_buf[b]
                      /\ tx'[b] = tx[b] /\ eof'[b] = eof[b]
                      /\ (pc[b] # "none" /\ b.ip \in connected) => b.ip \in connected'
      ]_vars

\* A session whose write failed is back at read_until, registered, having
\* sent nothing, while another session has a task in the pool.
C17_Witness ==
    \E a, b \in SocketAddrs :
        /\ pc[a] = "read" /\ eof[a] /\ ~discarded[a]
        /\ read_buf[a] = << >> /\ tx[a] = << >>
        /\ a.ip \in connected
        /\ pc[b] = "offload" /\ b.ip \in connected

\* C18: when the blocking task of a request does not complete, the session
\* gets ServerError with code TASK_SPAWN_FAIL and the request's id to write,
\* with storage untouched; no other step produces that code; the session
\* then goes back to reading; and the code is none of the codes of the other
\* failure sites.
C18_OffloadFailureReported ==
    [][\A a \in SocketAddrs :
            /\ TASK_SPAWN_FAIL \notin {CHECKSUM_FAIL_GET, CONFIG_FAIL_GET, CONFIG_RSP_CORRUPT,
                                       SET_CONFIG_FAIL, SET_CONFIG_SERDE_FAIL}
            /\ (pc[a] = "offload" /\ pc'[a] # "offload")
                  => \A env \in TaskEnv :
                        (RunTask(a, env) /\ ~env.join)
                        => /\ pc'[a] = "write"
                           /\ ResponseOf(serde_buf'[a])
                                 = internal_err(TASK_SPAWN_FAIL, RequestOf(read_buf[a]).id)
                           /\ db' = db
            /\ (Answered(a) /\ IsServerError(ResponseOf(serde_buf'[a]), TASK_SPAWN_FAIL))
                  => /\ pc[a] = "offload"
                     /\ \E env \in TaskEnv : ~env.join /\ RunTask(a, env)
            /\ (/\ pc[a] = "write" /\ pc'[a] # "write"
                /\ IsServerError(ResponseOf(serde_buf[a]), TASK_SPAWN_FAIL))
                  => pc'[a] = "read" /\ a.ip \in connected'
      ]_vars

\* The task of a set_config request for a new key did not complete: the
\* session holds the offload error, with the request's id, and the key is
\* not stored.
C18_Witness ==
    \E a \in SocketAddrs :
        /\ pc[a] = "write"
        /\ RequestOf(read_buf[a]).method = M_set_config
        /\ ResponseOf(serde_buf[a])
              = internal_err(TASK_SPAWN_FAIL, RequestOf(read_buf[a]).id)
        /\ HasStringId(RequestOf(read_buf[a]))
        /\ as_bytes(IdOf(RequestOf(read_buf[a]))) \notin DOMAIN db.config

\* C19: every step that changes storage is the completion of the task of a
\* set_config request that is answered with a result; it changes, in both
\* trees, the entry of the request's key only: each tree keeps every other
\* entry and loses none.
C19_OnlySetConfigWrites ==
    [][db' # db =>
         \E a \in SocketAddrs :
            /\ pc[a] = "offload" /\ pc'[a] = "write"
            /\ RequestOf(read_buf[a]).method = M_set_config
            /\ RequestOf(read_buf[a]).id # None
            /\ ResponseOf(serde_buf'[a]).error = None
            /\ LET k == as_bytes(SetKey(RequestOf(read_buf[a]))) IN
               \A tree \in {"config", "checksum"} :
                  /\ DOMAIN db'[tree] = DOMAIN db[tree] \cup {k}
                  /\ \A j \in DOMAIN db[tree] \ {k} : db'[tree][j] = db[tree][j]
      ]_vars

\* Both keys are stored and a session holds the result of a set_config that
\* has just been committed for one of them.
C19_Witness ==
    /\ DOMAIN db.config = {as_bytes(k) : k \in Keys}
    /\ \E a \in SocketAddrs :
          /\ pc[a] = "write"
          /\ RequestOf(read_buf[a]).method = M_set_config
          /\ ResponseOf(serde_buf[a]).error = None
          /\ db.config[as_bytes(SetKey(RequestOf(read_buf[a])))]
                = as_bytes(SetValue(RequestOf(read_buf[a])))

\* C20: every entry of the checksum tree is 8 bytes long and every entry of
\* the config tree is well-formed UTF-8; so, in every reachable state, the
\* checksum handler returns a response for every key (its copy into the
\* 8-byte array does not panic), the config handler answers every key with a
\* result when the read succeeds, and no session holds the corruption error.
C20_StoredShapes ==
    /\ \A k \in DOMAIN db.checksum : Len(db.checksum[k]) = 8
    /\ \A k \in DOMAIN db.config : from_utf8(db.config[k]) # None
    /\ \A k \in Keys, env \in TaskEnv :
          /\ handle_checksum_req(db, {<<ID, JString(k)>>}, Some(1), env).resp # None
          /\ env.io => handle_config_req(db, {<<ID, JString(k)>>}, Some(1), env).resp[1].error
                          = None
    /\ \A a \in SocketAddrs :
          pc[a] = "write" => ~IsServerError(ResponseOf(serde_buf[a]), CONFIG_RSP_CORRUPT)

\* After set_config stored a non-ASCII value, the checksum handler has read
\* the stored hash back for one session and the config handler the stored
\* text for another.
C20_Witness ==
    \E a, b \in SocketAddrs :
        /\ pc[a] = "write" /\ pc[b] = "write"
        /\ route(RequestOf(read_buf[a]).method) = "checksum"
        /\ ResponseOf(serde_buf[a])
              = checksum_response(xxh3_64(as_bytes(<<233>>)), RequestOf(read_buf[a]).id)
        /\ RequestOf(read_buf[b]).method = M_config
        /\ ResponseOf(serde_buf[b])
              = ResponseResult({<<RESULT, JString(<<233>>)>>}, RequestOf(read_buf[b]).id)

====
